---- MODULE Spec2Model ----
(***************************************************************************)
(* State-machine model of chgnet/utils/vasp_utils.py.                      *)
(*                                                                         *)
(* parse_vasp_dir is modelled statement block by statement block: the      *)
(* program position pc walks through the existence checks, the two file    *)
(* parses, the forward scan of the OUTCAR lines, the alignment of the      *)
(* magnetization tables with the OSZICAR, and the per-ionic-step assembly  *)
(* of the dataset.  The files on disk are the inputs: which names exist,   *)
(* how many ionic steps the OSZICAR reports, what the vasprun.xml holds    *)
(* and which lines the OUTCAR holds.                                       *)
(*                                                                         *)
(* The vasprun.xml and the OUTCAR are taken to exist next to the OSZICAR   *)
(* and to parse; save_path is None.  An OUTCAR line stands for the class   *)
(* of lines that the tests of the scan loop treat alike.                   *)
(*                                                                         *)
(* Spec is parse_vasp_dir as a whole.  SpecScan runs the scan loop of      *)
(* lines 77-125 one line at a time over arbitrary lines.  SpecSolve is     *)
(* solve_charge_by_mag.                                                    *)
(***************************************************************************)
EXTENDS Integers, Sequences, FiniteSets, TLC

\* ---------------------------------------------------------------- bounds
\* Largest number of sections (one per ionic step) in an OUTCAR.
MaxSections == 3
\* Largest number of ionic steps in the OSZICAR and in the vasprun.xml.
MaxSteps == 2
\* Largest number of OUTCAR lines that SpecScan reads.
MaxLines == 8
\* Largest number of sites of a structure given to solve_charge_by_mag.
MaxSites == 2

\* The electronic iteration budget of the run, vasprun_orig.parameters["NELM"].
NELM == 2
\* Number of atoms of every structure of the run.
NAtoms == 2
\* Per-atom values that a data row of the OUTCAR can carry in its last column.
RowValues == {1, 2}

\* ---------------------------------------------------------------- state
VARIABLES
    dir_exists,          \* os.path.exists(file_root)
    has_oszicar,         \* os.path.exists(f"{file_root}/OSZICAR")
    has_oszicar_gz,      \* whether file_root holds OSZICAR.gz
    check_electronic_convergence,   \* the argument of that name
    pc,                  \* position in parse_vasp_dir
    raised,              \* exception that left parse_vasp_dir, or "none"
    paths,               \* (oszicar_path, vasprun_path, outcar_path)
    opened,              \* the files opened so far
    oszicar,             \* len(oszicar.ionic_steps), -1 before the parse
    vasprun_orig,        \* vasprun_orig.ionic_steps, <<>> before the parse
    scanner,             \* the locals of the scan loop, lines 56-75
    scanned,             \* history: mag_x_all as the scan left it (line 127)
    stdout,              \* the messages printed
    n_atoms,
    dataset,
    index,               \* loop variable of the assembly loop
    scanlog,             \* SpecScan: the lines read so far by the scan loop
    solve                \* SpecSolve: the state of solve_charge_by_mag

fsvars == <<dir_exists, has_oszicar, has_oszicar_gz, check_electronic_convergence>>
vars == <<dir_exists, has_oszicar, has_oszicar_gz, check_electronic_convergence,
          pc, raised, paths, opened, oszicar, vasprun_orig, scanner,
          scanned, stdout, n_atoms, dataset, index, scanlog, solve>>
\* The variables that parse_vasp_dir as a whole leaves alone.
othervars == <<scanlog, solve>>

\* ---------------------------------------------------------------- helpers
Min(a, b) == IF a <= b THEN a ELSE b

\* list.reverse(), and the order in which reverse_readfile yields the lines.
Reverse(s) == [i \in 1..Len(s) |-> s[Len(s) + 1 - i]]

\* Mutant of PopLast: list.pop(0), the first element is dropped.
PopFirst(s) == SubSeq(s, 2, Len(s))

\* list.pop(-1) on a non-empty list: everything but the last element.
PopLast(s) == SubSeq(s, 1, Len(s) - 1)

\* dict(zip(header, tokens)): the keys are the first min(len) header names,
\* a repeated name keeps the value of its last occurrence.
DictZip(h, t) ==
    LET n == Min(Len(h), Len(t))
    IN  [k \in {h[i] : i \in 1..n} |->
            t[CHOOSE i \in 1..n : h[i] = k /\ \A j \in (i+1)..n : h[j] # k]]

\* ---------------------------------------------------------------- OUTCAR
\* The stripped OUTCAR lines ("clean").  A line is its text; a data row also
\* carries the value v of its last column.
Line(text, v) == [text |-> text, v |-> v]
HeaderText == "# of ion  s  p  d  tot"
RowText == "1  0  0  v  v"
TotText == "tot  0  0  v  v"

\* "magnetization (x)" in clean
ContainsMagX(clean) ==
    clean.text \in {"magnetization (x)", "see magnetization (x) below"}
\* clean.startswith("# of ion")
IsHeader(clean) == clean.text = HeaderText
\* re.split(r"\s{2,}", clean.strip()) followed by header.pop(0)
SplitHeader(clean) == <<"s", "p", "d", "tot">>
\* re.match(r"\s*(\d+)\s+(([\d\.\-]+)\s+)+", clean)
IsRow(clean) == clean.text = RowText
\* [float(token) for token in re.findall(...)] followed by tokens.pop(0)
RowTokens(clean) == <<0, 0, clean.v, clean.v>>
\* clean.startswith("tot"): the "tot" line of a table, and the marker
\* "total charge" itself.
StartsWithTot(clean) == clean.text \in {TotText, "total charge"}
\* re.search("electrostatic", clean)
HasElectrostatic(clean) == clean.text = "the electrostatic potential"

\* Lines 56-60 and 70-75: the locals before the scan loop.
NewScanner ==
    [charge |-> <<>>, mag_x |-> <<>>, mag_y |-> <<>>, mag_z |-> <<>>,
     header |-> <<>>,
     read_charge |-> FALSE, read_mag_x |-> FALSE,
     read_mag_y |-> FALSE, read_mag_z |-> FALSE,
     mag_x_all |-> <<>>, ion_step_count |-> 0]

\* Line 80: read_charge or read_mag_x or read_mag_y or read_mag_z
Reading(s) == s.read_charge \/ s.read_mag_x \/ s.read_mag_y \/ s.read_mag_z

\* Mutant of ClosesTable: a table is completed unless the tables are ahead.
ClosesUnlessAhead(count, tables) == count >= Len(tables)

\* Line 98: the condition under which a "tot" line completes a table.
ClosesTable(count, tables) == count = Len(tables) + 1

\* Lines 78-103: the step counter, then header, data row or "tot" line.
ScanTables(s, clean) ==
    LET count == IF ContainsMagX(clean) THEN s.ion_step_count + 1
                                        ELSE s.ion_step_count
        row   == DictZip(s.header, RowTokens(clean))
        s0    == [s EXCEPT !.ion_step_count = count]
    IN  IF ~Reading(s) THEN s0
        ELSE IF IsHeader(clean) THEN [s0 EXCEPT !.header = SplitHeader(clean)]
        ELSE IF IsRow(clean) THEN
               IF s.read_charge THEN [s0 EXCEPT !.charge = Append(@, row)]
               ELSE IF s.read_mag_x THEN [s0 EXCEPT !.mag_x = Append(@, row)]
               ELSE IF s.read_mag_y THEN [s0 EXCEPT !.mag_y = Append(@, row)]
               ELSE [s0 EXCEPT !.mag_z = Append(@, row)]
        ELSE IF StartsWithTot(clean) THEN
               [s0 EXCEPT !.mag_x_all = IF ClosesTable(count, @)
                                          THEN Append(@, s.mag_x) ELSE @,
                          !.read_charge = FALSE, !.read_mag_x = FALSE,
                          !.read_mag_y = FALSE, !.read_mag_z = FALSE]
        ELSE s0

\* Mutant of ScanMarkers: a marker sets its own flag and leaves the others.
ScanMarkersKeep(s, clean) ==
    IF clean.text = "total charge" THEN [s EXCEPT !.read_charge = TRUE]
    ELSE IF clean.text = "magnetization (x)" THEN
         [s EXCEPT !.mag_x = <<>>, !.read_mag_x = TRUE]
    ELSE IF clean.text = "magnetization (y)" THEN
         [s EXCEPT !.mag_y = <<>>, !.read_mag_y = TRUE]
    ELSE IF clean.text = "magnetization (z)" THEN
         [s EXCEPT !.mag_z = <<>>, !.read_mag_z = TRUE]
    ELSE IF HasElectrostatic(clean) THEN
         [s EXCEPT !.read_charge = FALSE, !.read_mag_x = FALSE,
                   !.read_mag_y = FALSE, !.read_mag_z = FALSE]
    ELSE s

\* Lines 104-125: the section markers.
ScanMarkers(s, clean) ==
    IF clean.text = "total charge" THEN
         [s EXCEPT !.read_charge = TRUE, !.read_mag_x = FALSE,
                   !.read_mag_y = FALSE, !.read_mag_z = FALSE]
    ELSE IF clean.text = "magnetization (x)" THEN
         [s EXCEPT !.mag_x = <<>>, !.read_mag_x = TRUE, !.read_charge = FALSE,
                   !.read_mag_y = FALSE, !.read_mag_z = FALSE]
    ELSE IF clean.text = "magnetization (y)" THEN
         [s EXCEPT !.mag_y = <<>>, !.read_mag_y = TRUE, !.read_charge = FALSE,
                   !.read_mag_x = FALSE, !.read_mag_z = FALSE]
    ELSE IF clean.text = "magnetization (z)" THEN
         [s EXCEPT !.mag_z = <<>>, !.read_mag_z = TRUE, !.read_charge = FALSE,
                   !.read_mag_x = FALSE, !.read_mag_y = FALSE]
    ELSE IF HasElectrostatic(clean) THEN
         [s EXCEPT !.read_charge = FALSE, !.read_mag_x = FALSE,
                   !.read_mag_y = FALSE, !.read_mag_z = FALSE]
    ELSE s

\* Lines 77-125: one iteration of the scan loop, on the line clean.
ScanLine(s, clean) == ScanMarkers(ScanTables(s, clean), clean)

\* Lines 77-125: the scan loop over all_lines, as the sequence of the values
\* of the locals before the first line and after each line.
RECURSIVE ScanTrace(_)
ScanTrace(all_lines) ==
    IF all_lines = <<>> THEN <<NewScanner>>
    ELSE LET n == Len(all_lines)
             before == ScanTrace(SubSeq(all_lines, 1, n - 1))
         IN  Append(before, ScanLine(before[n], all_lines[n]))

\* Lines 77-125: the locals when the scan loop ends.
ScanLoop(all_lines) == ScanTrace(all_lines)[Len(all_lines) + 1]

\* The OUTCAR files of the model.  A file is a sequence of sections, one per
\* ionic step.  StepSection(v) is what VASP writes for a step: the charge
\* table followed by the magnetization table.  BareSection has no column
\* header of its own and CutSection ends before its "tot" line.
ChargeTable(v) ==
    <<Line("total charge", 0), Line(HeaderText, 0), Line(RowText, v),
      Line(TotText, 0)>>
StepSection(v) ==
    ChargeTable(v) \o
    <<Line("magnetization (x)", 0), Line(HeaderText, 0), Line(RowText, v),
      Line(TotText, 0)>>
BareSection == <<Line("magnetization (x)", 0), Line(RowText, 1), Line(TotText, 0)>>
CutSection ==
    <<Line("magnetization (x)", 0), Line(HeaderText, 0), Line(RowText, 1),
      Line("the electrostatic potential", 0)>>
Sections == {StepSection(v) : v \in RowValues} \cup {BareSection, CutSection}

RECURSIVE FilesOf(_)
FilesOf(n) ==
    IF n = 0 THEN {<<>>}
    ELSE LET shorter == FilesOf(n - 1)
         IN  shorter \cup {f \o sec : f \in shorter, sec \in Sections}
OutcarFiles == FilesOf(MaxSections)

\* ---------------------------------------------------------------- vasprun
\* One ionic step of vasprun_orig.ionic_steps.  structure, e_0_energy and
\* forces are given by the position of the step in the file, so that an entry
\* of the dataset shows which step it came from.
IonicStep(i, ne, st) ==
    [structure |-> i, e_0_energy |-> 0 - (6 * (i + 1)), forces |-> 10 + i,
     electronic_steps |-> ne, has_stress |-> st, stress |-> 20 + i]
\* len(ionic_step["electronic_steps"]): VASP stops a step at NELM iterations.
ElectronicCounts == {NELM - 1, NELM}
VasprunFiles ==
    UNION { { [i \in 1..n |-> IonicStep(i - 1, ne[i], st[i])] :
                ne \in [1..n -> ElectronicCounts], st \in [1..n -> BOOLEAN] }
            : n \in 0..MaxSteps }

\* Lines 134-141 with "stress": None; stress_is_none tells None from a list.
NoDataset == [structure |-> <<>>, uncorrected_total_energy |-> <<>>,
              energy_per_atom |-> <<>>, force |-> <<>>, magmom |-> <<>>,
              stress_is_none |-> TRUE, stress |-> <<>>]

\* The scan loop has read no line.
NoScanLog == [n_lines |-> 0, clean |-> Line("", 0), entered_mag_x |-> 0,
              closing_lines |-> 0]
\* solve_charge_by_mag has not been called.
NoSolve == [pc |-> "idle"]

\* ---------------------------------------------------------------- Init
Init ==
    /\ dir_exists \in BOOLEAN
    /\ has_oszicar \in BOOLEAN
    /\ has_oszicar_gz \in BOOLEAN
    /\ (~dir_exists => ~has_oszicar /\ ~has_oszicar_gz)
    /\ check_electronic_convergence \in BOOLEAN
    /\ pc = "check_dir"
    /\ raised = "none"
    /\ paths = "unset"
    /\ opened = {}
    /\ oszicar = -1
    /\ vasprun_orig = <<>>
    /\ scanner = NewScanner
    /\ scanned = <<>>
    /\ stdout = <<>>
    /\ n_atoms = 0
    /\ dataset = NoDataset
    /\ index = 0
    /\ scanlog = NoScanLog
    /\ solve = NoSolve

\* ---------------------------------------------------------------- actions
Raise(exc) == pc' = "raised" /\ raised' = exc

\* Lines 32-33: the directory check.
CheckDir ==
    /\ pc = "check_dir"
    /\ IF ~dir_exists
         THEN Raise("FileNotFoundError")
         ELSE pc' = "locate" /\ UNCHANGED raised
    /\ UNCHANGED <<fsvars, othervars, paths, opened, oszicar, vasprun_orig, scanner,
                   scanned, stdout, n_atoms, dataset, index>>

\* Mutant of PlainBranch: the directory is tested instead of the OSZICAR.
PlainBranchOnDir == dir_exists

\* The condition of the if on line 35.
PlainBranch == has_oszicar
\* The condition of the elif on line 39.
GzBranch == has_oszicar

\* Lines 35-44: choose the three paths or raise.
Locate ==
    /\ pc = "locate"
    /\ IF PlainBranch
         THEN paths' = "plain" /\ pc' = "oszicar" /\ UNCHANGED raised
         ELSE IF GzBranch
           THEN paths' = "gz" /\ pc' = "oszicar" /\ UNCHANGED raised
           ELSE Raise("RuntimeError") /\ UNCHANGED paths
    /\ UNCHANGED <<fsvars, othervars, opened, oszicar, vasprun_orig, scanner,
                   scanned, stdout, n_atoms, dataset, index>>

OszicarPath == IF paths = "gz" THEN "OSZICAR.gz" ELSE "OSZICAR"
VasprunPath == IF paths = "gz" THEN "vasprun.xml.gz" ELSE "vasprun.xml"
OutcarPath == IF paths = "gz" THEN "OUTCAR.gz" ELSE "OUTCAR"

\* Line 46: oszicar = Oszicar(oszicar_path); the file reports n ionic steps.
ReadOszicar(n) ==
    /\ pc = "oszicar"
    /\ opened' = opened \cup {OszicarPath}
    /\ oszicar' = n
    /\ pc' = "vasprun"
    /\ UNCHANGED <<fsvars, othervars, raised, paths, vasprun_orig, scanner,
                   scanned, stdout, n_atoms, dataset, index>>

\* Lines 47-54: vasprun_orig = Vasprun(vasprun_path, ...); the file holds steps.
ReadVasprun(steps) ==
    /\ pc = "vasprun"
    /\ opened' = opened \cup {VasprunPath}
    /\ vasprun_orig' = steps
    /\ pc' = "outcar"
    /\ UNCHANGED <<fsvars, othervars, raised, paths, oszicar, scanner,
                   scanned, stdout, n_atoms, dataset, index>>

\* Lines 63-125: the file is read backwards into all_lines, all_lines is
\* reversed, and the scan loop runs over it.
ScanFile(file) == ScanLoop(Reverse(Reverse(file)))
\* ScanFile, tabulated over the files of the model.
ScanOf == [file \in OutcarFiles |-> ScanFile(file)]

\* Lines 56-125: the locals are set up and the OUTCAR is read and scanned.
ScanOutcar(file) ==
    /\ pc = "outcar"
    /\ opened' = opened \cup {OutcarPath}
    /\ scanner' = ScanOf[file]
    /\ pc' = "align"
    /\ UNCHANGED <<fsvars, othervars, raised, paths, oszicar, vasprun_orig,
                   scanned, stdout, n_atoms, dataset, index>>

\* Mutant of Unfinished: fewer tables than steps counts as unfinished.
UnfinishedWhenFewer(steps, tables) == steps > Len(tables)
\* Mutant of Unfinished: every count that is not the finished one is reported.
UnfinishedUnlessFinished(steps, tables) == steps # Len(tables) - 1

\* Line 127: the "unfinished job" condition.
Unfinished(steps, tables) == steps = Len(tables)
\* Line 129: the "finished job" condition.
Finished(steps, tables) == steps = Len(tables) - 1

\* Lines 127-130: compare the tables with the OSZICAR.
Align ==
    /\ pc = "align"
    /\ scanned' = scanner.mag_x_all
    /\ IF Unfinished(oszicar, scanner.mag_x_all)
         THEN /\ stdout' = Append(stdout, "Unfinished OUTCAR")
              /\ UNCHANGED scanner
         ELSE IF Finished(oszicar, scanner.mag_x_all)
           THEN /\ scanner' = [scanner EXCEPT !.mag_x_all = PopLast(@)]
                /\ UNCHANGED stdout
           ELSE UNCHANGED <<scanner, stdout>>
    /\ pc' = "dataset"
    /\ UNCHANGED <<fsvars, othervars, raised, paths, opened, oszicar, vasprun_orig,
                   n_atoms, dataset, index>>

\* Lines 132-141: n_atoms and the empty dataset, both from ionic_steps[0].
NewDataset ==
    /\ pc = "dataset"
    /\ IF vasprun_orig = <<>>
         THEN Raise("IndexError") /\ UNCHANGED <<n_atoms, dataset>>
         ELSE /\ n_atoms' = NAtoms
              /\ dataset' = [NoDataset EXCEPT
                               !.stress_is_none = ~vasprun_orig[1].has_stress]
              /\ pc' = "loop"
              /\ UNCHANGED raised
    /\ index' = 0
    /\ UNCHANGED <<fsvars, othervars, paths, opened, oszicar, vasprun_orig, scanner,
                   scanned, stdout>>

\* Mutant of Skipped: a step is left out only beyond the budget.
SkippedBeyondBudget(check, ionic_step) ==
    check /\ ionic_step.electronic_steps > NELM

\* Lines 144-147: the step is left out of the dataset.
Skipped(check, ionic_step) ==
    check /\ ionic_step.electronic_steps >= NELM

\* Line 155: [site["tot"] for site in table]
TotColumn(table) == [i \in 1..Len(table) |-> table[i]["tot"]]
HasTotColumn(table) == \A i \in 1..Len(table) : "tot" \in DOMAIN table[i]

\* Mutant of TableIndex: the table is taken at the number of recorded steps.
TableIndexRecorded(idx, n_recorded) == n_recorded

\* Line 155: the 0-based position of the table read for the step at position
\* idx of the run, n_recorded steps having been recorded before it.
TableIndex(idx, n_recorded) == idx

\* Line 156: "stress" in ionic_step
AppendsStress(ionic_step) == ionic_step.has_stress

\* Lines 143-157: one iteration of the assembly loop.
AssembleStep ==
    /\ pc = "loop"
    /\ index < Len(vasprun_orig)
    /\ LET ionic_step == vasprun_orig[index + 1]
           mag_x_all == scanner.mag_x_all
           d1 == [dataset EXCEPT
                    !.structure = Append(@, ionic_step.structure),
                    !.uncorrected_total_energy = Append(@, ionic_step.e_0_energy),
                    !.energy_per_atom = Append(@, ionic_step.e_0_energy \div n_atoms),
                    !.force = Append(@, ionic_step.forces)]
           t  == TableIndex(index, Len(dataset.structure))
           d2 == [d1 EXCEPT !.magmom = Append(@, TotColumn(mag_x_all[t + 1]))]
           d3 == IF mag_x_all # <<>> THEN d2 ELSE d1
           d4 == [d3 EXCEPT !.stress = Append(@, ionic_step.stress)]
           stress == AppendsStress(ionic_step)
       IN  IF Skipped(check_electronic_convergence, ionic_step)
             THEN /\ index' = index + 1
                  /\ UNCHANGED <<pc, raised, dataset>>
           ELSE IF mag_x_all # <<>> /\ t + 1 > Len(mag_x_all)
             THEN Raise("IndexError") /\ dataset' = d1 /\ UNCHANGED index
           ELSE IF mag_x_all # <<>> /\ ~HasTotColumn(mag_x_all[t + 1])
             THEN Raise("KeyError") /\ dataset' = d1 /\ UNCHANGED index
           ELSE IF stress /\ d3.stress_is_none
             THEN Raise("AttributeError") /\ dataset' = d3 /\ UNCHANGED index
           ELSE IF stress
             THEN /\ dataset' = d4 /\ index' = index + 1
                  /\ UNCHANGED <<pc, raised>>
           ELSE   /\ dataset' = d3 /\ index' = index + 1
                  /\ UNCHANGED <<pc, raised>>
    /\ UNCHANGED <<fsvars, othervars, paths, opened, oszicar, vasprun_orig, scanner,
                   scanned, stdout, n_atoms>>

\* Lines 159-166: the loop is over; raise on an empty dataset or return it.
Return ==
    /\ pc = "loop"
    /\ index = Len(vasprun_orig)
    /\ IF dataset.uncorrected_total_energy = <<>>
         THEN Raise("RuntimeError")
         ELSE pc' = "returned" /\ UNCHANGED raised
    /\ UNCHANGED <<fsvars, othervars, paths, opened, oszicar, vasprun_orig, scanner,
                   scanned, stdout, n_atoms, dataset, index>>

Next ==
    \/ CheckDir
    \/ Locate
    \/ \E n \in 0..MaxSteps : ReadOszicar(n)
    \/ \E steps \in VasprunFiles : ReadVasprun(steps)
    \/ \E file \in OutcarFiles : ScanOutcar(file)
    \/ Align
    \/ NewDataset
    \/ AssembleStep
    \/ Return

Spec == Init /\ [][Next]_vars

\* ---------------------------------------------------------------- SpecScan
\* The lines that SpecScan feeds to the scan loop: the five markers, the
\* column header, a data row, a "tot" line, a line that mentions the
\* magnetization (x) marker without being it, and a line of no interest.
OutcarLines ==
    { Line("total charge", 0),
      Line("magnetization (x)", 0),
      Line("magnetization (y)", 0),
      Line("magnetization (z)", 0),
      Line(HeaderText, 0),
      Line(TotText, 0),
      Line("the electrostatic potential", 0),
      Line("see magnetization (x) below", 0),
      Line("--------", 0) }
    \cup { Line(RowText, v) : v \in RowValues }

\* Lines 70-75: the scan loop is about to read its first line.
InitScan ==
    /\ dir_exists = TRUE /\ has_oszicar = TRUE /\ has_oszicar_gz = FALSE
    /\ check_electronic_convergence = TRUE
    /\ pc = "scan"
    /\ raised = "none"
    /\ paths = "plain"
    /\ opened = {"OSZICAR", "vasprun.xml", "OUTCAR"}
    /\ oszicar = 0
    /\ vasprun_orig = <<>>
    /\ scanner = NewScanner
    /\ scanned = <<>>
    /\ stdout = <<>>
    /\ n_atoms = 0
    /\ dataset = NoDataset
    /\ index = 0
    /\ scanlog = NoScanLog
    /\ solve = NoSolve

\* Lines 80-97: the line reaches the "tot" branch.
AtTotBranch(s, clean) ==
    Reading(s) /\ ~IsHeader(clean) /\ ~IsRow(clean) /\ StartsWithTot(clean)

\* Lines 77-125: the loop reads the line clean.  scanlog records the line,
\* the number of exact magnetization (x) markers and the number of lines that
\* reached the "tot" branch.
ScanStep(clean) ==
    /\ pc = "scan"
    /\ scanlog.n_lines < MaxLines
    /\ scanner' = ScanLine(scanner, clean)
    /\ scanlog' =
         [n_lines |-> scanlog.n_lines + 1,
          clean |-> clean,
          entered_mag_x |-> IF clean.text = "magnetization (x)"
                              THEN scanlog.entered_mag_x + 1
                              ELSE scanlog.entered_mag_x,
          closing_lines |-> IF AtTotBranch(scanner, clean)
                              THEN scanlog.closing_lines + 1
                              ELSE scanlog.closing_lines]
    /\ UNCHANGED <<fsvars, pc, raised, paths, opened, oszicar, vasprun_orig,
                   scanned, stdout, n_atoms, dataset, index, solve>>

NextScan == \E clean \in OutcarLines : ScanStep(clean)

SpecScan == InitScan /\ [][NextScan]_vars

\* ---------------------------------------------------------------- SpecSolve
\* solve_charge_by_mag.  Magnetic moments and interval bounds are in tenths:
\* 35 is 3.5.
Elements == {"Mn", "O", "Fe"}
Moments == {15, 35, 60}

\* A mapping argument: None, or a dict (an empty dict is a function with an
\* empty domain).
NoneArg == [is_none |-> TRUE, map |-> <<>>]
Dict(map) == [is_none |-> FALSE, map |-> map]
Interval(min_mag, max_mag, mag_ox) ==
    [min_mag |-> min_mag, max_mag |-> max_mag, mag_ox |-> mag_ox]

\* Line 196: {"Li": 1, "O": -2}
BuiltinDefaultOx == [sp \in {"Li", "O"} |-> IF sp = "Li" THEN 1 ELSE 0 - 2]
\* Lines 197-199: the intervals of Mn, in the order of the dict.
BuiltinOxRanges ==
    [sp \in {"Mn"} |->
        <<Interval(5, 15, 2), Interval(15, 25, 3), Interval(25, 35, 4),
          Interval(35, 42, 3), Interval(42, 50, 2)>>]

\* The mappings a caller passes: None, an empty dict, or a dict of its own.
\* The caller's range table has overlapping intervals for Mn.
CallerDefaultOx == [sp \in {"Mn", "Fe"} |-> IF sp = "Mn" THEN 7 ELSE 3]
CallerOxRanges ==
    [sp \in {"Mn", "O"} |->
        IF sp = "Mn" THEN <<Interval(10, 40, 2), Interval(30, 50, 3)>>
                     ELSE <<Interval(0, 10, 0 - 1)>>]
DefaultOxArgs == {NoneArg, Dict(<<>>), Dict(CallerDefaultOx)}
OxRangesArgs == {NoneArg, Dict(<<>>), Dict(CallerOxRanges)}

\* A site: its element, and its oxidation-state decoration if it has one.
\* species_string is the element symbol, followed by the oxidation state when
\* the site is decorated.
Site(el, decorated, oxi) == [element |-> el, decorated |-> decorated, oxi |-> oxi]
SpeciesString(site) ==
    IF ~site.decorated THEN site.element
    ELSE IF site.element = "Mn" THEN "Mn+"
    ELSE IF site.element = "O" THEN "O-"
    ELSE "Fe+"
\* The decoration an input site of the element carries, if it carries one.
GivenOxi(el) == IF el = "O" THEN 0 - 2 ELSE 3
GivenSites == {Site(el, d, IF d THEN GivenOxi(el) ELSE 0) :
                  el \in Elements, d \in BOOLEAN}

\* The structures given: 1..MaxSites sites, and the moments under the key
\* "magmom", under "final_magmom", or under both (then "magmom" holds zeros).
GivenStructures ==
    UNION { { [sites |-> sites,
               has_final |-> keys \in {"final_magmom", "both"},
               has_magmom |-> keys \in {"magmom", "both"},
               final_magmom |-> IF keys = "magmom" THEN <<>> ELSE moments,
               magmom |-> IF keys = "magmom" THEN moments
                          ELSE IF keys = "both" THEN [i \in 1..n |-> 0]
                          ELSE <<>>] :
                sites \in [1..n -> GivenSites], moments \in [1..n -> Moments],
                keys \in {"magmom", "final_magmom", "both"} }
            : n \in 1..MaxSites }

\* Lines 201-203: site_properties.get("final_magmom", site_properties.get("magmom"))
Magmoms(struct) == IF struct.has_final THEN struct.final_magmom ELSE struct.magmom

\* Mutant of CopyOf: no copy is made, out_structure is the given object.
AliasOf(obj) == obj

\* Line 192: structure.copy() is a new object.
CopyOf(obj) == obj + 1

\* Line 193: remove_oxidation_states()
RemoveOxidationStates(struct) ==
    [struct EXCEPT !.sites = [i \in 1..Len(struct.sites) |->
                                Site(struct.sites[i].element, FALSE, 0)]]

\* Line 222: add_oxidation_state_by_site(ox_list), for a list of the length
\* of the structure.
AddOxidationStateBySite(struct, ox_list) ==
    [struct EXCEPT !.sites = [i \in 1..Len(struct.sites) |->
                                Site(struct.sites[i].element, TRUE, ox_list[i])]]

\* Lines 196-197: arg or builtin; None and the empty dict are falsy.
OrBuiltin(arg, builtin) ==
    IF arg.is_none \/ DOMAIN arg.map = {} THEN builtin ELSE arg.map

\* Mutant of InInterval: the interval is open below and closed above.
InIntervalUpper(min_mag, max_mag, m) == min_mag < m /\ m <= max_mag

\* Line 209: min_mag <= magmoms[idx] < max_mag
InInterval(min_mag, max_mag, m) == min_mag <= m /\ m < max_mag

\* The positions of the intervals of the table that hold the moment m.
Matches(table, m) ==
    {i \in 1..Len(table) : InInterval(table[i].min_mag, table[i].max_mag, m)}

\* Mutant of FirstMatch: the loop does not stop at the first match.
LastMatch(table, m) ==
    IF Matches(table, m) = {} THEN 0
    ELSE CHOOSE i \in Matches(table, m) : \A j \in Matches(table, m) : j <= i

\* Lines 208-212: the position of the interval at which the loop breaks, 0
\* when it ends without a match.
FirstMatch(table, m) ==
    IF Matches(table, m) = {} THEN 0
    ELSE CHOOSE i \in Matches(table, m) : \A j \in Matches(table, m) : i <= j

\* Mutant of UsesDefault: the default also serves a species whose range table
\* has no interval for the moment.
UsesDefaultAfterRanges(species, ranges, defaults, matched) ==
    (species \notin DOMAIN ranges \/ ~matched) /\ species \in DOMAIN defaults

\* Lines 207 and 213: the elif branch is taken.
UsesDefault(species, ranges, defaults, matched) ==
    species \notin DOMAIN ranges /\ species \in DOMAIN defaults

\* Mutant of StillSolved: the flag is set from the site at hand alone.
SolvedByLastSite(solved_ox, assigned) == assigned

\* Lines 216-217: solved_ox after a site.
StillSolved(solved_ox, assigned) == IF ~assigned THEN FALSE ELSE solved_ox

RECURSIVE Sum(_)
\* Line 220: sum(ox_list)
Sum(list) == IF list = <<>> THEN 0 ELSE Head(list) + Sum(Tail(list))

\* The call solve_charge_by_mag(structure, default_ox, ox_ranges): the given
\* structure is object 1 of the heap.
InitSolve ==
    /\ dir_exists = FALSE /\ has_oszicar = FALSE /\ has_oszicar_gz = FALSE
    /\ check_electronic_convergence = TRUE
    /\ pc = "idle"
    /\ raised = "none"
    /\ paths = "unset"
    /\ opened = {}
    /\ oszicar = -1
    /\ vasprun_orig = <<>>
    /\ scanner = NewScanner
    /\ scanned = <<>>
    /\ stdout = <<>>
    /\ n_atoms = 0
    /\ dataset = NoDataset
    /\ index = 0
    /\ scanlog = NoScanLog
    /\ \E given \in GivenStructures, d \in DefaultOxArgs, r \in OxRangesArgs :
         solve = [pc |-> "start", given |-> given, heap |-> <<given>>,
                  structure |-> 1, default_ox_arg |-> d, ox_ranges_arg |-> r,
                  out_structure |-> 0, ox_list |-> <<>>, solved_ox |-> TRUE,
                  default_ox |-> <<>>, ox_ranges |-> <<>>, magmoms |-> <<>>,
                  idx |-> 0, result |-> "pending", raised |-> "none",
                  stdout |-> <<>>]

parsevars == <<fsvars, pc, raised, paths, opened, oszicar, vasprun_orig,
               scanner, scanned, stdout, n_atoms, dataset, index, scanlog>>

\* Lines 192-203: the copy, the stripped decoration, the tables, the moments.
SolveStart ==
    /\ solve.pc = "start"
    /\ LET out == CopyOf(solve.structure)
           heap1 == [i \in 1..out |-> IF i = out THEN solve.heap[solve.structure]
                                                 ELSE solve.heap[i]]
           heap2 == [heap1 EXCEPT ![out] = RemoveOxidationStates(@)]
       IN  solve' = [solve EXCEPT
                       !.pc = "loop",
                       !.out_structure = out,
                       !.heap = heap2,
                       !.ox_list = <<>>,
                       !.solved_ox = TRUE,
                       !.default_ox = OrBuiltin(solve.default_ox_arg, BuiltinDefaultOx),
                       !.ox_ranges = OrBuiltin(solve.ox_ranges_arg, BuiltinOxRanges),
                       !.magmoms = Magmoms(heap2[solve.structure]),
                       !.idx = 0]
    /\ UNCHANGED parsevars

\* Lines 205-217: one iteration of the loop over the sites of out_structure.
SolveSite ==
    /\ solve.pc = "loop"
    /\ solve.idx < Len(solve.heap[solve.out_structure].sites)
    /\ LET site == solve.heap[solve.out_structure].sites[solve.idx + 1]
           species == SpeciesString(site)
           m == solve.magmoms[solve.idx + 1]
           ranged == species \in DOMAIN solve.ox_ranges
           hit == IF ranged THEN FirstMatch(solve.ox_ranges[species], m) ELSE 0
           byDefault == UsesDefault(species, solve.ox_ranges, solve.default_ox,
                                    hit # 0)
           assigned == hit # 0 \/ byDefault
           ox_list1 == IF hit # 0
                         THEN Append(solve.ox_list,
                                     solve.ox_ranges[species][hit].mag_ox)
                       ELSE IF byDefault
                         THEN Append(solve.ox_list, solve.default_ox[species])
                       ELSE solve.ox_list
       IN  solve' = [solve EXCEPT
                       !.ox_list = ox_list1,
                       !.solved_ox = StillSolved(solve.solved_ox, assigned),
                       !.idx = solve.idx + 1]
    /\ UNCHANGED parsevars

\* Lines 219-225: the structure with its oxidation states, or None.
SolveReturn ==
    /\ solve.pc = "loop"
    /\ solve.idx = Len(solve.heap[solve.out_structure].sites)
    /\ LET out == solve.out_structure
           total_charge == Sum(solve.ox_list)
       IN  IF solve.solved_ox
             THEN IF Len(solve.ox_list) # Len(solve.heap[out].sites)
                    THEN solve' = [solve EXCEPT
                           !.pc = "done", !.raised = "ValueError",
                           !.stdout = Append(@, [text |-> "Solved oxidation state",
                                                 total_charge |-> total_charge])]
                    ELSE solve' = [solve EXCEPT
                           !.pc = "done", !.result = "structure",
                           !.heap[out] = AddOxidationStateBySite(@, solve.ox_list),
                           !.stdout = Append(@, [text |-> "Solved oxidation state",
                                                 total_charge |-> total_charge])]
             ELSE solve' = [solve EXCEPT
                    !.pc = "done", !.result = "None",
                    !.stdout = Append(@, [text |-> "Failed to solve oxidation state",
                                          total_charge |-> 0])]
    /\ UNCHANGED parsevars

NextSolve == SolveStart \/ SolveSite \/ SolveReturn

SpecSolve == InitSolve /\ [][NextSolve]_vars

\* ---------------------------------------------------------------- claims
Terminal == pc \in {"returned", "raised"}
\* The OUTCAR has been scanned and lines 127-130 have run.
Aligned == pc \in {"dataset", "loop", "returned"}
              \/ (pc = "raised" /\ OutcarPath \in opened)
\* Nothing has been opened or parsed.
Untouched ==
    /\ opened = {}
    /\ oszicar = -1
    /\ vasprun_orig = <<>>
    /\ scanner = NewScanner
\* A step reached electronic self-consistency within the budget when it took
\* fewer than NELM electronic iterations.
Converged(ionic_step) == ionic_step.electronic_steps < NELM
\* The steps that are to be recorded, in the order of the run.
Survives(ionic_step) == ~check_electronic_convergence \/ Converged(ionic_step)
Surviving == SelectSeq(vasprun_orig, Survives)
SurvivingIndices == [k \in 1..Len(Surviving) |-> Surviving[k].structure]

\* C1: a directory that holds the convergence log only as OSZICAR.gz gets the
\* compressed paths and no "no data" error; the "no data" error of the lookup
\* is raised only when neither OSZICAR nor OSZICAR.gz is there.
C1_CompressedAccepted ==
    /\ (dir_exists /\ ~has_oszicar /\ has_oszicar_gz
            /\ pc \notin {"check_dir", "locate"})
         => (paths = "gz" /\ raised # "RuntimeError")
    /\ (pc = "raised" /\ raised = "RuntimeError" /\ paths = "unset")
         => (~has_oszicar /\ ~has_oszicar_gz)

\* C2: the missing-resource errors come before any file is read: without the
\* directory the not-found error is raised, and in a directory with neither
\* OSZICAR nor OSZICAR.gz the "no data" error is raised, in both cases with no
\* file opened, nothing parsed and the scanner never started.
C2_MissingBeforeRead ==
    /\ (~dir_exists /\ pc # "check_dir")
         => (pc = "raised" /\ raised = "FileNotFoundError" /\ Untouched)
    /\ (dir_exists /\ ~has_oszicar /\ ~has_oszicar_gz
            /\ pc \notin {"check_dir", "locate"})
         => (pc = "raised" /\ raised = "RuntimeError" /\ Untouched)
C2_Witness ==
    /\ dir_exists /\ ~has_oszicar /\ ~has_oszicar_gz
    /\ pc = "raised" /\ raised = "RuntimeError"

\* C3 as stated: when the scan completed as many tables as the OSZICAR has
\* ionic steps, nothing is printed and no table is dropped.
C3_EqualCountsSilent ==
    (Aligned /\ Len(scanned) = oszicar)
        => (stdout = <<>> /\ scanner.mag_x_all = scanned)
\* C3 amended: when the scan completed as many tables as the OSZICAR has
\* ionic steps, "Unfinished OUTCAR" is printed once and no table is dropped.
C3_EqualCountsReported ==
    (Aligned /\ Len(scanned) = oszicar)
        => (stdout = <<"Unfinished OUTCAR">> /\ scanner.mag_x_all = scanned)
C3_Witness ==
    /\ Aligned /\ oszicar = 2 /\ Len(scanned) = 2
    /\ Len(scanner.mag_x_all) = 2

\* C4: the alignment step drops a table exactly when the scan completed one
\* table more than the OSZICAR has ionic steps; it then drops the last table
\* only, the others keep their order, the count equals the step count, nothing
\* is printed and no error is raised.  In every other case no table is dropped.
C4_DropsTrailingTable ==
    [][ pc = "align" =>
          IF Len(scanner.mag_x_all) = oszicar + 1
            THEN /\ scanner'.mag_x_all
                      = SubSeq(scanner.mag_x_all, 1, Len(scanner.mag_x_all) - 1)
                 /\ Len(scanner'.mag_x_all) = oszicar
                 /\ stdout' = stdout
                 /\ pc' = "dataset" /\ raised' = "none"
            ELSE scanner'.mag_x_all = scanner.mag_x_all ]_vars
C4_Witness ==
    /\ Aligned /\ oszicar = 1 /\ Len(scanned) = 2
    /\ scanned[1] # scanned[2]
    /\ scanner.mag_x_all = <<scanned[1]>>

\* C5 as stated: whenever the number of completed tables is neither the step
\* count of the OSZICAR nor one more, the alignment step prints a diagnostic.
C5_MismatchReported ==
    [][ (pc = "align" /\ Len(scanner.mag_x_all) # oszicar
                      /\ Len(scanner.mag_x_all) # oszicar + 1)
          => stdout' # stdout ]_vars
\* C5 amended: a diagnostic is printed exactly when the two counts are equal;
\* when the number of completed tables is neither the step count nor one more,
\* nothing is printed and no table is dropped.
C5_MismatchSilent ==
    Aligned =>
        /\ (stdout # <<>>) <=> (Len(scanned) = oszicar)
        /\ (Len(scanned) # oszicar /\ Len(scanned) # oszicar + 1)
             => (stdout = <<>> /\ scanner.mag_x_all = scanned)
C5_Witness ==
    /\ Aligned /\ stdout = <<>>
    /\ oszicar = 0 /\ Len(scanned) = 2 /\ Len(scanner.mag_x_all) = 2

\* C6: a run with at least one surviving ionic step returns a dataset whatever
\* the number of magnetization tables is (stated for runs whose tables all
\* have the "tot" column and whose steps all report stress alike).
C6_MismatchNotFatal ==
    (Terminal /\ Aligned /\ Len(Surviving) >= 1
        /\ (\A i \in 1..Len(scanner.mag_x_all) : HasTotColumn(scanner.mag_x_all[i]))
        /\ (\A i \in 1..Len(vasprun_orig) :
                vasprun_orig[i].has_stress = vasprun_orig[1].has_stress))
        => pc = "returned"

\* C7: when no ionic step survives the convergence filter, the run ends with
\* the "no data" error, and no returned dataset is empty.
C7_NoSurvivorNoData ==
    /\ (Terminal /\ Aligned /\ Len(Surviving) = 0) => raised = "RuntimeError"
    /\ pc = "returned" => dataset.structure # <<>>

\* C8 as stated: in a returned dataset structure, uncorrected_total_energy,
\* energy_per_atom and force hold the surviving steps in order, and when the
\* scan completed at least one table magmom[k] is the "tot" column of the
\* table at the original index of structure[k].
C8_AlignedWhenScanned ==
    pc = "returned" =>
        /\ dataset.structure = SurvivingIndices
        /\ Len(dataset.uncorrected_total_energy) = Len(Surviving)
        /\ Len(dataset.energy_per_atom) = Len(Surviving)
        /\ Len(dataset.force) = Len(Surviving)
        /\ scanned # <<>> =>
             /\ Len(dataset.magmom) = Len(Surviving)
             /\ \A k \in 1..Len(dataset.magmom) :
                    dataset.magmom[k]
                      = TotColumn(scanner.mag_x_all[dataset.structure[k] + 1])
\* C8 amended: the same, for magmom under the condition that at least one
\* table is left after the alignment step; with no table left magmom is empty.
C8_AlignedWhenTablesLeft ==
    pc = "returned" =>
        /\ dataset.structure = SurvivingIndices
        /\ dataset.uncorrected_total_energy
             = [k \in 1..Len(Surviving) |-> Surviving[k].e_0_energy]
        /\ dataset.energy_per_atom
             = [k \in 1..Len(Surviving) |-> Surviving[k].e_0_energy \div NAtoms]
        /\ dataset.force = [k \in 1..Len(Surviving) |-> Surviving[k].forces]
        /\ scanner.mag_x_all # <<>> =>
             /\ Len(dataset.magmom) = Len(Surviving)
             /\ \A k \in 1..Len(dataset.magmom) :
                    /\ dataset.structure[k] + 1 \in 1..Len(scanner.mag_x_all)
                    /\ HasTotColumn(scanner.mag_x_all[dataset.structure[k] + 1])
                    /\ dataset.magmom[k]
                         = TotColumn(scanner.mag_x_all[dataset.structure[k] + 1])
        /\ scanner.mag_x_all = <<>> => dataset.magmom = <<>>
C8_Witness ==
    /\ pc = "returned"
    /\ Len(vasprun_orig) = 2
    /\ dataset.structure = <<1>>
    /\ Len(scanner.mag_x_all) = 2
    /\ HasTotColumn(scanner.mag_x_all[1]) /\ HasTotColumn(scanner.mag_x_all[2])
    /\ TotColumn(scanner.mag_x_all[1]) # TotColumn(scanner.mag_x_all[2])
    /\ dataset.magmom = <<TotColumn(scanner.mag_x_all[2])>>

\* C9: in a returned dataset stress is None exactly when no ionic step of the
\* run reports stress, and otherwise holds one entry per surviving step, the
\* stress of that step.
C9_StressUniform ==
    pc = "returned" =>
        /\ dataset.stress_is_none
             <=> (\A i \in 1..Len(vasprun_orig) : ~vasprun_orig[i].has_stress)
        /\ ~dataset.stress_is_none
             => dataset.stress = [k \in 1..Len(Surviving) |-> Surviving[k].stress]

\* C10: in a returned dataset, without convergence checking every ionic step
\* is recorded, in order; with it the recorded steps are, in order, exactly
\* those that took fewer than NELM electronic iterations.
C10_ConvergenceFilter ==
    pc = "returned" =>
        /\ ~check_electronic_convergence
             => dataset.structure = [k \in 1..Len(vasprun_orig) |-> k - 1]
        /\ check_electronic_convergence
             => /\ \A i \in 1..Len(vasprun_orig) :
                      (\E k \in 1..Len(dataset.structure) :
                            dataset.structure[k] = i - 1)
                        <=> Converged(vasprun_orig[i])
                /\ \A k \in 1..(Len(dataset.structure) - 1) :
                      dataset.structure[k] < dataset.structure[k + 1]
C10_Witness ==
    /\ pc = "returned"
    /\ check_electronic_convergence
    /\ Len(vasprun_orig) = 2
    /\ ~Converged(vasprun_orig[1]) /\ Converged(vasprun_orig[2])
    /\ dataset.structure = <<1>>

\* C14: after any prefix of the lines the ionic-step counter equals the number
\* of lines that were exactly the magnetization (x) marker, the lines that
\* switch the scanner into magnetization-x mode; a line that only contains the
\* marker text leaves the counter alone.
C14_CounterCountsMarkers ==
    pc = "scan" => scanner.ion_step_count = scanlog.entered_mag_x

\* C15: after any prefix of the lines the number of completed tables does not
\* exceed the ionic-step counter, and a line completes at most one table and
\* only so that the number of tables then equals the counter.
C15_TablesFollowCounter ==
    [][ /\ Len(scanner'.mag_x_all) <= scanner'.ion_step_count
        /\ Len(scanner'.mag_x_all) # Len(scanner.mag_x_all)
             => /\ Len(scanner'.mag_x_all) = Len(scanner.mag_x_all) + 1
                /\ Len(scanner'.mag_x_all) = scanner'.ion_step_count ]_vars
C15_Witness ==
    /\ pc = "scan"
    /\ scanlog.closing_lines >= 3
    /\ scanner.ion_step_count = 1
    /\ Len(scanner.mag_x_all) = 1

\* The number of reading flags that are set.
FlagsSet(s) ==
    (IF s.read_charge THEN 1 ELSE 0) + (IF s.read_mag_x THEN 1 ELSE 0)
    + (IF s.read_mag_y THEN 1 ELSE 0) + (IF s.read_mag_z THEN 1 ELSE 0)

\* C16: after every line at most one of the four reading flags is set, and a
\* data row read in a reading mode is appended to the table of that mode and
\* to no other table.
C16_SingleMode ==
    [][ LET clean == scanlog'.clean
            row == DictZip(scanner.header, RowTokens(clean))
        IN  /\ FlagsSet(scanner') <= 1
            /\ IsRow(clean) =>
                 /\ scanner'.charge = IF scanner.read_charge
                                        THEN Append(scanner.charge, row)
                                        ELSE scanner.charge
                 /\ scanner'.mag_x = IF scanner.read_mag_x
                                       THEN Append(scanner.mag_x, row)
                                       ELSE scanner.mag_x
                 /\ scanner'.mag_y = IF scanner.read_mag_y
                                       THEN Append(scanner.mag_y, row)
                                       ELSE scanner.mag_y
                 /\ scanner'.mag_z = IF scanner.read_mag_z
                                       THEN Append(scanner.mag_z, row)
                                       ELSE scanner.mag_z ]_vars
C16_Witness ==
    /\ pc = "scan"
    /\ IsRow(scanlog.clean)
    /\ scanner.read_mag_y
    /\ Len(scanner.mag_y) = 1
    /\ Len(scanner.charge) = 1 /\ Len(scanner.mag_x) = 1
    /\ scanner.mag_z = <<>>

\* C18: a line completes a table only if it is a "tot" line read in
\* magnetization-x mode.
C18_ClosedInMagXMode ==
    [][ Len(scanner'.mag_x_all) > Len(scanner.mag_x_all)
          => (scanner.read_mag_x /\ StartsWithTot(scanlog'.clean)) ]_vars

\* ---- solve_charge_by_mag
SolveDone == solve.pc = "done"
Solving == solve.pc \in {"loop", "done"}
GivenSpecies(i) == solve.given.sites[i].element
GivenMoment(i) == Magmoms(solve.given)[i]
NSites == Len(solve.given.sites)
Returned == solve.heap[solve.out_structure]
\* The intervals of the species of site i that hold its moment, lower bound
\* included and upper bound excluded.
Holding(i) ==
    LET table == solve.ox_ranges[GivenSpecies(i)]
    IN  {k \in 1..Len(table) :
           table[k].min_mag <= GivenMoment(i) /\ GivenMoment(i) < table[k].max_mag}
Ranged(i) == GivenSpecies(i) \in DOMAIN solve.ox_ranges
\* The states the tables in force allow for site i.
Allowed(i) ==
    IF Ranged(i)
      THEN {solve.ox_ranges[GivenSpecies(i)][k].mag_ox : k \in Holding(i)}
    ELSE IF GivenSpecies(i) \in DOMAIN solve.default_ox
      THEN {solve.default_ox[GivenSpecies(i)]}
    ELSE {}
AllResolved == \A i \in 1..NSites : Allowed(i) # {}

\* C11: the solver is all-or-nothing. It returns a structure exactly when
\* every site is resolved and None otherwise; in the structure the i-th site
\* carries a state its own species and moment allow, and the total charge
\* printed is the sum of the states assigned.
C11_AllOrNothing ==
    SolveDone =>
        /\ solve.raised = "none"
        /\ solve.result = (IF AllResolved THEN "structure" ELSE "None")
        /\ solve.result = "structure" =>
             /\ \A i \in 1..NSites :
                  /\ Returned.sites[i].element = GivenSpecies(i)
                  /\ Returned.sites[i].decorated
                  /\ Returned.sites[i].oxi \in Allowed(i)
             /\ solve.stdout =
                  <<[text |-> "Solved oxidation state",
                     total_charge |-> Sum([i \in 1..NSites |-> Returned.sites[i].oxi])]>>
\* A structure of two sites of different species is returned, and another
\* call with a resolved site before an unresolved one returns None.
C11_Witness ==
    /\ SolveDone /\ NSites = 2 /\ solve.result = "structure"
    /\ GivenSpecies(1) = "Mn" /\ GivenSpecies(2) = "O"
    /\ Returned.sites[1].oxi # Returned.sites[2].oxi
C11_WitnessNone ==
    /\ SolveDone /\ NSites = 2 /\ solve.result = "None"
    /\ Allowed(1) = {} /\ Allowed(2) # {}

\* C12: an interval holds a moment when low <= moment < high. With the
\* built-in table an Mn site of moment 3.5 gets 3, the state of [3.5, 4.2),
\* and not 4, the state of [2.5, 3.5).
C12_HalfOpen ==
    Solving =>
        \A i \in 1..Min(solve.idx, NSites) :
            Ranged(i) =>
                /\ Holding(i) = {} => ~solve.solved_ox
                /\ (solve.solved_ox /\ Len(solve.ox_list) >= i) =>
                     \E k \in Holding(i) :
                        solve.ox_list[i] = solve.ox_ranges[GivenSpecies(i)][k].mag_ox
                /\ (solve.solved_ox /\ solve.ox_ranges = BuiltinOxRanges
                    /\ GivenMoment(i) = 35) => solve.ox_list[i] = 3
C12_Witness ==
    /\ SolveDone /\ solve.result = "structure"
    /\ solve.ox_ranges = BuiltinOxRanges
    /\ \E i \in 1..NSites :
         /\ GivenSpecies(i) = "Mn" /\ GivenMoment(i) = 35
         /\ Returned.sites[i].oxi = 3

\* C13: the state of a site with a range table is that of the first interval,
\* in the order of the table, that holds the moment, also when intervals
\* overlap; a site gets exactly one state.
C13_FirstMatch ==
    Solving =>
        /\ Len(solve.ox_list) <= Min(solve.idx, NSites)
        /\ solve.solved_ox =>
             /\ Len(solve.ox_list) = Min(solve.idx, NSites)
             /\ \A i \in 1..Len(solve.ox_list) :
                  (Ranged(i) /\ Holding(i) # {}) =>
                      LET first == CHOOSE k \in Holding(i) :
                                       \A j \in Holding(i) : k <= j
                      IN  solve.ox_list[i] =
                              solve.ox_ranges[GivenSpecies(i)][first].mag_ox
\* A moment held by two overlapping intervals of different states.
C13_Witness ==
    /\ SolveDone /\ solve.result = "structure"
    /\ \E i \in 1..NSites :
         /\ Ranged(i) /\ Cardinality(Holding(i)) = 2
         /\ Cardinality(Allowed(i)) = 2
         /\ Returned.sites[i].oxi \in Allowed(i)

\* C17: a species with a range table is resolved through that table only.
\* When no interval holds the moment the site stays unassigned, also when
\* default_ox has the species, and the result is None.
C17_RangesOnly ==
    /\ Solving =>
         \A i \in 1..Min(solve.idx, NSites) :
            (Ranged(i) /\ Holding(i) = {}) => ~solve.solved_ox
    /\ SolveDone =>
         ((\E i \in 1..NSites : Ranged(i) /\ Holding(i) = {}) =>
              /\ solve.result = "None"
              /\ solve.raised = "none")
\* The species is in both tables and no interval holds the moment.
C17_Witness ==
    /\ SolveDone /\ solve.result = "None"
    /\ \E i \in 1..NSites :
         /\ Ranged(i) /\ Holding(i) = {}
         /\ GivenSpecies(i) \in DOMAIN solve.default_ox
         /\ \A j \in 1..NSites \ {i} : Allowed(j) # {}

\* C19: a mapping the caller supplies replaces the built-in one entirely,
\* an empty mapping included.
C19_OverrideReplaces ==
    Solving =>
        /\ ~solve.default_ox_arg.is_none => solve.default_ox = solve.default_ox_arg.map
        /\ ~solve.ox_ranges_arg.is_none => solve.ox_ranges = solve.ox_ranges_arg.map

\* C20: the structure given is never modified; the decoration is stripped
\* and the states are assigned on the copy that is returned.
C20_InputUntouched ==
    /\ solve.pc # "idle" => solve.heap[solve.structure] = solve.given
    /\ Solving => solve.out_structure # solve.structure
\* A decorated structure was given and the one returned carries other states.
C20_Witness ==
    /\ SolveDone /\ solve.result = "structure"
    /\ \E i \in 1..NSites :
         /\ solve.given.sites[i].decorated
         /\ Returned.sites[i].oxi # solve.given.sites[i].oxi
    /\ solve.heap[solve.structure] = solve.given

====
